---- MODULE Spec2Model ----
(***************************************************************************)
(* Model of cellprofiler/modules/adaptivelocalnormalization.py:            *)
(* AdaptiveLocalNormalization.run and the two passes it drives,            *)
(* calculate_radius_image (the radius search) and calculate_aln_image      *)
(* (the normalisation), with the scipy/skimage filters they call.          *)
(*                                                                         *)
(* Numbers.  Pixel intensities are small non-negative integers, which      *)
(* float64 holds exactly.  Every derived quantity is kept as an exact      *)
(* rational <<numerator, denominator>> in lowest terms.  A standard        *)
(* deviation s is carried by its square s^2 (the variance): all values     *)
(* compared are non-negative, so s <= t is decided as s^2 <= t^2.  A       *)
(* quotient d / s is a record [kind, sgn, sq]: kind "fin" with sign sgn    *)
(* and square sq, or the IEEE results of a zero divisor, kind "nan"        *)
(* (0/0) and kind "inf" (d/0, d # 0).                                      *)
(***************************************************************************)
EXTENDS Integers, Sequences, FiniteSets, TLC

\* ------------------------------------------------------------------ bounds
Rows == 2
Cols == 2
MaxRadius == 2
Depth == 2

\* Pixel intensities of the input images.
Intensities == {0, 1}

\* threshold_std_float values tried: 0, the default 0.5, and 1.0 (outside [0,1)).
ThresholdFractions == {<<0, 1>>, <<1, 2>>, <<1, 1>>}

\* radius_max values tried: 0 (not "greater than 0") and 1..MaxRadius.
RadiusMaxValues == 0..MaxRadius

Pixels == (0..(Rows - 1)) \X (0..(Cols - 1))

Images == [Pixels -> Intensities]

\* ------------------------------------------------------- exact rationals
RECURSIVE GCD(_, _)
GCD(a, b) == IF b = 0 THEN a ELSE GCD(b, a % b)

Abs(a) == IF a < 0 THEN -a ELSE a

\* n/d in lowest terms with a positive denominator (d # 0).
Rat(n, d) ==
    LET g == GCD(Abs(n), Abs(d))
        s == IF d < 0 THEN -1 ELSE 1
    IN  <<(s * n) \div g, (s * d) \div g>>

RMul(a, b) == Rat(a[1] * b[1], a[2] * b[2])

RSub(a, b) == Rat(a[1] * b[2] - b[1] * a[2], a[2] * b[2])

RAdd(a, b) == Rat(a[1] * b[2] + b[1] * a[2], a[2] * b[2])

RLeq(a, b) == a[1] * b[2] <= b[1] * a[2]

RLt(a, b) == a[1] * b[2] < b[1] * a[2]

RZero == <<0, 1>>

\* ------------------------------------------------------- float quotients
NaN == [kind |-> "nan", sgn |-> 0, sq |-> RZero]

Sign(n) == IF n < 0 THEN -1 ELSE IF n > 0 THEN 1 ELSE 0

\* d / s in float64, s given by its square s2 >= 0: 0/0 is nan, d/0 is +-inf.
Divide(d, s2) ==
    IF s2[1] = 0
    THEN IF d[1] = 0 THEN NaN ELSE [kind |-> "inf", sgn |-> Sign(d[1]), sq |-> RZero]
    ELSE [kind |-> "fin", sgn |-> Sign(d[1]),
          sq |-> Rat(d[1] * d[1] * s2[2], d[2] * d[2] * s2[1])]

Zero == [kind |-> "fin", sgn |-> 0, sq |-> RZero]

\* ------------------------------------------------------------- filters
\* A numpy array: every entry is computed once, when the array is built.
Array(f) == f @@ <<>>

\* scipy.ndimage mode='reflect' (the default of generic_filter and
\* uniform_filter): d c b a | a b c d | d c b a, period 2n.
ReflectIndex(i, n) ==
    LET m == i % (2 * n)
    IN  IF m < n THEN m ELSE 2 * n - 1 - m

ReflectPixel(p, o) == <<ReflectIndex(p[1] + o[1], Rows), ReflectIndex(p[2] + o[2], Cols)>>

\* skimage.morphology.disk(r): the offsets of a (2r+1) x (2r+1) footprint with
\* dy^2 + dx^2 <= r^2.
disk(radius) ==
    {o \in (-radius..radius) \X (-radius..radius) :
        o[1] * o[1] + o[2] * o[2] <= radius * radius}

\* The offsets uniform_filter(img, size) averages over: size x size, origin 0,
\* so along each axis the window runs from i - size \div 2 for size entries.
UniformWindow(size) ==
    LET lo == -(size \div 2)
    IN  (lo..(lo + size - 1)) \X (lo..(lo + size - 1))

\* The pixels in row-major order.
PixelSeq == Array([i \in 1..(Rows * Cols) |-> <<(i - 1) \div Cols, (i - 1) % Cols>>])

RECURSIVE SumUpTo(_, _, _)
SumUpTo(img, weight, i) ==
    IF i = 0 THEN 0
    ELSE weight[PixelSeq[i]] * img[PixelSeq[i]] + SumUpTo(img, weight, i - 1)

\* The sum over all pixels q of weight[q] * img[q].
WeightedSum(img, weight) == SumUpTo(img, weight, Rows * Cols)

Ones == Array([p \in Pixels |-> 1])

\* How often each pixel q is read when footprint W is centred at p: the offsets
\* of W that reflection maps to q.
Coverage(W) ==
    Array([p \in Pixels |->
        Array([q \in Pixels |-> Cardinality({o \in W : ReflectPixel(p, o) = q})])])

\* The axis-aligned (2rr+1) x (2rr+1) window centred at the pixel: the window
\* the specification gives square mode for radius rr (C8 is stated with it).
SquareFootprint(rr) == (-rr..rr) \X (-rr..rr)

Footprints ==
    {disk(rr) : rr \in 1..MaxRadius} \cup {UniformWindow(size) : size \in 1..MaxRadius}
        \cup {SquareFootprint(rr) : rr \in 1..MaxRadius}

FootprintCoverage == Array([W \in Footprints |-> Coverage(W)])

\* The sum of the values of img under footprint W centred at p.
FootprintSum(img, p, W) == WeightedSum(img, FootprintCoverage[W][p])

Squared(img) == Array([p \in Pixels |-> img[p] * img[p]])

\* generic_filter(img, numpy.mean, footprint=strel)
generic_filter_mean(img, strel) ==
    Array([p \in Pixels |-> Rat(FootprintSum(img, p, strel), Cardinality(strel))])

\* generic_filter(img, numpy.std, footprint=strel): the population standard
\* deviation of the values under the footprint, as its square.
generic_filter_std(img, strel) ==
    LET n  == Cardinality(strel)
        sq == Squared(img)
    IN  Array([p \in Pixels |->
            LET s1 == FootprintSum(img, p, strel)
                s2 == FootprintSum(sq, p, strel)
            IN  Rat(n * s2 - s1 * s1, n * n)])

\* scipy.ndimage.filters.uniform_filter(img, window_size)
uniform_filter(img, window_size) ==
    LET W == UniformWindow(window_size)
    IN  Array([p \in Pixels |-> Rat(FootprintSum(img, p, W), window_size * window_size)])

\* uniform_filter_std: sqrt(c2 - c1*c1), as its square.  In exact arithmetic
\* c2 - c1*c1 >= 0, so the isnan mask of the last assignment is empty and the
\* assignment changes nothing.
uniform_filter_std(img, window_size) ==
    LET c1 == uniform_filter(img, window_size)
        c2 == uniform_filter(Squared(img), window_size)
    IN  Array([p \in Pixels |-> RSub(c2[p], RMul(c1[p], c1[p]))])

\* uniform_filter_mean: the isnan mask is empty for the same reason.
uniform_filter_mean(img, window_size) == uniform_filter(img, window_size)

\* numpy.mean(img)
global_mean(img) == Rat(WeightedSum(img, Ones), Cardinality(Pixels))

\* numpy.std(img), as its square.
global_std(img) ==
    LET n  == Cardinality(Pixels)
        s1 == WeightedSum(img, Ones)
        s2 == WeightedSum(Squared(img), Ones)
    IN  Rat(n * s2 - s1 * s1, n * n)

\* t_std = global_std * threshold_std, as its square (threshold_std >= 0 here).
t_std(img, threshold_std) == RMul(RMul(threshold_std, threshold_std), global_std(img))

\* t_cv = t_std / global_mean: nan for 0/0 (an all-zero image), else by its square.
t_cv(img, threshold_std) ==
    LET m == global_mean(img)
        t == t_std(img, threshold_std)
    IN  IF m[1] = 0
        THEN IF t[1] = 0 THEN NaN ELSE [kind |-> "inf", sgn |-> 1, sq |-> RZero]
        ELSE [kind |-> "fin", sgn |-> Sign(t[1]), sq |-> Rat(t[1] * m[2] * m[2], t[2] * m[1] * m[1])]

\* img_std / (img_mean + 1) at one pixel, as its square.
img_cv(std2, mean) ==
    LET m1 == RAdd(mean, <<1, 1>>)
    IN  Rat(std2[1] * m1[2] * m1[2], std2[2] * m1[1] * m1[1])

\* ------------------------------------------------- the two loop bodies
\* The local standard deviation for radius r: the disc branches build
\* strel = disk(r), the square branches pass r as the window size.
LocalStd(img, shape, radius) ==
    IF shape = "disc"
    THEN generic_filter_std(img, disk(radius))
    ELSE uniform_filter_std(img, radius)

LocalMean(img, shape, radius) ==
    IF shape = "disc"
    THEN generic_filter_mean(img, disk(radius))
    ELSE uniform_filter_mean(img, radius)

\* The comparison written img_std < t_std.
WithinThresholdStrict(std2, t2) == RLt(std2, t2)

\* img_std <= t_std
WithinThreshold(std2, t2) == RLeq(std2, t2)

\* img_cv <= t_cv: a comparison with nan is False.
CvWithinThreshold(cv2, tcv) ==
    \/ tcv.kind = "inf"
    \/ tcv.kind = "fin" /\ RLeq(cv2, tcv.sq)

\* img_bool of one iteration of calculate_radius_image.
img_bool(img, std, mean, method, threshold_std) ==
    LET t   == t_std(img, threshold_std)
        tcv == t_cv(img, threshold_std)
    IN  Array([p \in Pixels |->
            IF method = "std"
            THEN WithinThreshold(std[p], t)
            ELSE CvWithinThreshold(img_cv(std[p], mean[p]), tcv)])

\* radius_image[img_bool] = r
MaskedAssign(radius_img, mask, radius) ==
    Array([p \in Pixels |-> IF mask[p] THEN radius ELSE radius_img[p]])

\* img_std[img_std < t_std] = t_std
ClampStd(std, t2) == Array([p \in Pixels |-> IF RLt(std[p], t2) THEN t2 ELSE std[p]])

\* img_norm = (img - img_mean) / img_std
Normalize(img, mean, std) ==
    Array([p \in Pixels |-> Divide(RSub(<<img[p], 1>>, mean[p]), std[p])])

\* aln_image[radius_image == r] = img_norm[radius_image == r]
CopyWhere(aln, radius_img, radius, norm) ==
    Array([p \in Pixels |-> IF radius_img[p] = radius THEN norm[p] ELSE aln[p]])

zeros_like == [p \in Pixels |-> 0]

zeros_like_float == [p \in Pixels |-> Zero]

NoStat == [p \in Pixels |-> RZero]

\* The img_mean local after one iteration of calculate_radius_image: only the
\* cv branches compute it.
RadiusMean(img, shape, method, radius, old_mean) ==
    IF method = "cv" THEN LocalMean(img, shape, radius) ELSE old_mean

\* One iteration of the loop of calculate_radius_image.
RadiusIteration(img, radius_img, shape, method, threshold_std, radius) ==
    MaskedAssign(radius_img,
                 img_bool(img, LocalStd(img, shape, radius),
                          RadiusMean(img, shape, method, radius, NoStat),
                          method, threshold_std),
                 radius)

\* img_std after the clamp, in one iteration of calculate_aln_image.
ClampedStd(img, shape, threshold_std, radius) ==
    ClampStd(LocalStd(img, shape, radius), t_std(img, threshold_std))

\* img_norm of one iteration of calculate_aln_image.
NormalizedImage(img, shape, threshold_std, radius) ==
    Normalize(img, LocalMean(img, shape, radius), ClampedStd(img, shape, threshold_std, radius))

\* One iteration of the loop of calculate_aln_image.
AlnIteration(img, aln, radius_img, shape, threshold_std, radius) ==
    CopyWhere(aln, radius_img, radius, NormalizedImage(img, shape, threshold_std, radius))

\* calculate_radius_image as a function of its arguments: the loop over
\* r = 1..radius_max from zeros.
RECURSIVE RadiusLoop(_, _, _, _, _)
RadiusLoop(img, shape, method, threshold_std, upto) ==
    IF upto <= 0 THEN zeros_like
    ELSE RadiusIteration(img, RadiusLoop(img, shape, method, threshold_std, upto - 1),
                         shape, method, threshold_std, upto)

calculate_radius_image(img, shape, method, threshold_std, rmax) ==
    RadiusLoop(img, shape, method, threshold_std, rmax)

\* calculate_aln_image as a function of its arguments.
RECURSIVE AlnLoop(_, _, _, _, _)
AlnLoop(img, radius_img, shape, threshold_std, upto) ==
    IF upto <= 0 THEN zeros_like_float
    ELSE AlnIteration(img, AlnLoop(img, radius_img, shape, threshold_std, upto - 1),
                      radius_img, shape, threshold_std, upto)

calculate_aln_image(img, radius_img, shape, threshold_std, rmax) ==
    AlnLoop(img, radius_img, shape, threshold_std, rmax)

\* ------------------------------------------------------------ the state
VARIABLES
    volumetric,           \* x.volumetric
    x_data,               \* the input planes, 0-based; one plane when not volumetric
    threshold_std_float,  \* setting, a rational
    radius_max,           \* setting
    radius_method,        \* setting: "std" or "cv"
    strel_shape,          \* setting: "disc" or "square"
    pc,                   \* "start", "radius", "aln", "add", "done"
    index,                \* the plane being processed
    r,                    \* the loop variable of the running pass
    radius_image,         \* calculate_radius_image's result array
    img_std,              \* local of the running pass (by its square)
    img_mean,             \* local of the running pass
    img_norm,             \* local of calculate_aln_image
    aln_image,            \* calculate_aln_image's result array
    y_data,               \* the output planes
    images_added          \* whether images.add(y_name, y) has run

vars == <<volumetric, x_data, threshold_std_float, radius_max, radius_method,
          strel_shape, pc, index, r, radius_image, img_std, img_mean, img_norm,
          aln_image, y_data, images_added>>

settings == <<threshold_std_float, radius_max, radius_method, strel_shape>>

\* The planes of a volumetric input: flat planes and planes whose pixel at the
\* origin differs from the rest.
VolumePlanes ==
    {img \in Images : \A p, q \in Pixels \ {<<0, 0>>} : img[p] = img[q]}

Planes == DOMAIN x_data

\* Every iteration of the enumerate loop handed the first plane.
first_plane == x_data[0]

\* The 2D array handed to both passes: x_data itself, or the plane of the
\* enumerate loop.
plane == x_data[index]

Init ==
    /\ volumetric \in BOOLEAN
    /\ x_data \in IF volumetric THEN [0..(Depth - 1) -> VolumePlanes] ELSE [{0} -> Images]
    /\ threshold_std_float \in ThresholdFractions
    /\ radius_max \in RadiusMaxValues
    /\ radius_method \in {"cv", "std"}
    /\ strel_shape \in {"square", "disc"}
    /\ pc = "start"
    /\ index = 0
    /\ r = 1
    /\ radius_image = zeros_like
    /\ img_std = NoStat
    /\ img_mean = NoStat
    /\ img_norm = zeros_like_float
    /\ aln_image = zeros_like_float
    /\ y_data = [k \in DOMAIN x_data |-> zeros_like_float]
    /\ images_added = FALSE

\* run, up to the first call of calculate_radius_image and that call's
\* prologue: nothing looks at the settings' values before the call.
RunBegin ==
    /\ pc = "start"
    /\ pc' = "radius"
    /\ index' = 0
    /\ r' = 1
    /\ radius_image' = zeros_like
    /\ UNCHANGED <<volumetric, x_data, settings, img_std, img_mean, img_norm,
                   aln_image, y_data, images_added>>

\* One iteration of "for r in radii" in calculate_radius_image.
RadiusStep ==
    /\ pc = "radius"
    /\ r <= radius_max
    /\ img_std' = LocalStd(plane, strel_shape, r)
    /\ img_mean' = RadiusMean(plane, strel_shape, radius_method, r, img_mean)
    /\ radius_image' =
         MaskedAssign(radius_image,
                      img_bool(plane, img_std', img_mean', radius_method, threshold_std_float),
                      r)
    /\ r' = r + 1
    /\ UNCHANGED <<volumetric, x_data, settings, pc, index, img_norm, aln_image,
                   y_data, images_added>>

\* calculate_radius_image returns; calculate_aln_image starts.
RadiusReturn ==
    /\ pc = "radius"
    /\ r > radius_max
    /\ pc' = "aln"
    /\ r' = 1
    /\ aln_image' = zeros_like_float
    /\ UNCHANGED <<volumetric, x_data, settings, index, radius_image, img_std,
                   img_mean, img_norm, y_data, images_added>>

\* One iteration of "for r in radii" in calculate_aln_image.
AlnStep ==
    /\ pc = "aln"
    /\ r <= radius_max
    /\ img_std' = ClampedStd(plane, strel_shape, threshold_std_float, r)
    /\ img_mean' = LocalMean(plane, strel_shape, r)
    /\ img_norm' = Normalize(plane, img_mean', img_std')
    /\ aln_image' = CopyWhere(aln_image, radius_image, r, img_norm')
    /\ r' = r + 1
    /\ UNCHANGED <<volumetric, x_data, settings, pc, index, radius_image, y_data,
                   images_added>>

\* calculate_aln_image returns: its result becomes y_data (2D) or
\* y_data[index] (volumetric), and the enumerate loop moves on.
AlnReturn ==
    /\ pc = "aln"
    /\ r > radius_max
    /\ y_data' = [y_data EXCEPT ![index] = aln_image]
    /\ IF volumetric /\ index + 1 \in Planes
       THEN /\ index' = index + 1
            /\ pc' = "radius"
            /\ r' = 1
            /\ radius_image' = zeros_like
       ELSE /\ pc' = "add"
            /\ UNCHANGED <<index, r, radius_image>>
    /\ UNCHANGED <<volumetric, x_data, settings, img_std, img_mean, img_norm,
                   aln_image, images_added>>

\* images.add(y_name, y)
AddImage ==
    /\ pc = "add"
    /\ pc' = "done"
    /\ images_added' = TRUE
    /\ UNCHANGED <<volumetric, x_data, settings, index, r, radius_image, img_std,
                   img_mean, img_norm, aln_image, y_data>>

Next ==
    \/ RunBegin
    \/ RadiusStep
    \/ RadiusReturn
    \/ AlnStep
    \/ AlnReturn
    \/ AddImage

Spec == Init /\ [][Next]_vars

\* ---------------------------------------------------------------- claims
\* threshold_fraction in [0,1) and max_radius >= 1.
ValidConfig ==
    /\ RLeq(RZero, threshold_std_float)
    /\ RLt(threshold_std_float, <<1, 1>>)
    /\ radius_max >= 1

\* calculate_radius_image has returned for the current plane: radius_image is
\* its result.
RadiusReturned == pc \in {"aln", "add", "done"}

\* The dispersion statistic at p over the radius-rr neighbourhood exceeds the
\* global threshold.
Exceeds(img, p, rr) ==
    IF radius_method = "std"
    THEN RLt(t_std(img, threshold_std_float), LocalStd(img, strel_shape, rr)[p])
    ELSE LET tcv == t_cv(img, threshold_std_float)
         IN  /\ tcv.kind = "fin"
             /\ RLt(tcv.sq, img_cv(LocalStd(img, strel_shape, rr)[p],
                                   LocalMean(img, strel_shape, rr)[p]))

\* The smallest radius in 1..radius_max at which the statistic exceeds the
\* threshold, or radius_max when none does.
SmallestExceedingRadius(img, p) ==
    LET hits == {rr \in 1..radius_max : Exceeds(img, p, rr)}
    IN  IF hits = {} THEN radius_max
        ELSE CHOOSE rr \in hits : \A other \in hits : rr <= other

\* C1: for a valid configuration, every entry of the radius field returned by
\* calculate_radius_image lies in 1..max_radius (none is left at 0).
C1_RadiusInRange ==
    (ValidConfig /\ RadiusReturned) =>
        \A p \in Pixels : radius_image[p] >= 1 /\ radius_image[p] <= radius_max

\* C2: the returned radius at every pixel is the smallest radius in
\* 1..max_radius whose statistic exceeds the threshold, or max_radius if none.
C2_SmallestExceeding ==
    (ValidConfig /\ RadiusReturned) =>
        \A p \in Pixels : radius_image[p] = SmallestExceedingRadius(plane, p)

\* C3: in every iteration of the normaliser the clamped local std used as the
\* divisor is strictly positive at every pixel, and every quotient is finite.
C3_NoDivisionByZero ==
    (ValidConfig /\ pc = "aln" /\ r > 1) =>
        \A p \in Pixels : img_std[p][1] > 0 /\ img_norm[p].kind = "fin"

\* (image[p] - local_mean_rr(p)) / max(local_std_rr(p), t_std)
NormalizedAt(img, p, rr) ==
    LET t   == t_std(img, threshold_std_float)
        s   == LocalStd(img, strel_shape, rr)[p]
        eff == IF RLt(s, t) THEN t ELSE s
    IN  Divide(RSub(<<img[p], 1>>, LocalMean(img, strel_shape, rr)[p]), eff)

\* C4: after both passes every output pixel was assigned by the iteration of
\* its own radius rr in 1..max_radius and holds
\* (image - local mean) / max(local std, t_std) for that radius.
C4_OutputIsNormalized ==
    (ValidConfig /\ pc \in {"add", "done"}) =>
        \A p \in Pixels :
            /\ radius_image[p] \in 1..radius_max
            /\ y_data[index][p] = NormalizedAt(plane, p, radius_image[p])

IsConstant(img) == \A p, q \in Pixels : img[p] = img[q]

C6_ZeroThresholdRadiusOne ==
    (/\ RadiusReturned
     /\ threshold_std_float = RZero
     /\ radius_max >= 1
     /\ \A p \in Pixels : LocalStd(plane, strel_shape, 1)[p] # RZero) =>
        \A p \in Pixels : radius_image[p] = 1

\* C7: with an invalid configuration run never reaches either pass and never
\* adds an output image.
C7_InvalidConfigRejected ==
    ~ValidConfig => (pc = "start" /\ ~images_added)

\* C8: in square mode the statistics of the iteration for radius rr, in both
\* passes, are those of the (2rr+1) x (2rr+1) window.
C8_SquareWindowSize ==
    (strel_shape = "square" /\ r > 1 /\ pc \in {"radius", "aln"}) =>
        LET rr == r - 1
            s  == generic_filter_std(plane, SquareFootprint(rr))
            m  == generic_filter_mean(plane, SquareFootprint(rr))
        IN  IF pc = "radius"
            THEN img_std = s /\ (radius_method = "cv" => img_mean = m)
            ELSE img_std = ClampStd(s, t_std(plane, threshold_std_float)) /\ img_mean = m

\* C9: for a volumetric input the output has the input's slices and shape, and
\* output slice k is the two passes applied to input slice k alone, in order.
C9_SliceIndependent ==
    (volumetric /\ pc = "done") =>
        /\ DOMAIN y_data = DOMAIN x_data
        /\ \A k \in DOMAIN x_data :
            /\ DOMAIN y_data[k] = DOMAIN x_data[k]
            /\ y_data[k] =
                 calculate_aln_image(
                     x_data[k],
                     calculate_radius_image(x_data[k], strel_shape, radius_method,
                                            threshold_std_float, radius_max),
                     strel_shape, threshold_std_float, radius_max)

\* C9's case: a volume whose slices differ has been processed to the end and
\* its output slices differ too.
C9_Witness ==
    /\ volumetric
    /\ pc = "done"
    /\ ValidConfig
    /\ x_data[0] # x_data[1]
    /\ y_data[0] # y_data[1]

\* C10: within one scan, an entry of the radius field that has been set is not
\* changed by a later iteration.
C10_WriteOnce ==
    [][(pc = "radius" /\ pc' = "radius" /\ index' = index) =>
        \A p \in Pixels : radius_image[p] # 0 => radius_image'[p] = radius_image[p]]_vars

====
